---- MODULE Spec2Model ----
(***************************************************************************)
(* html-pdf-chrome: create() / generate() of src/index.ts as a state       *)
(* machine.  Each request is one invocation of create(); its coroutine     *)
(* position is pc[r], named after the source line it is about to execute   *)
(* ("L44") or whose awaited call it is suspended on ("L44w").              *)
(* The collaborators (chrome-launcher, chrome-remote-interface, the        *)
(* completion trigger) settle every call they were issued with either      *)
(* outcome, at any later turn of the event loop.                           *)
(***************************************************************************)
EXTENDS Integers, Sequences, FiniteSets, TLC

VARIABLES
  pc,          \* [Reqs -> label]: position of the create() coroutine
  myOptions,   \* [Reqs -> record]: the request's private copy of the options
  timer,       \* [Reqs -> "none" | "armed" | "fired"]: the setTimeout of line 32
  chrome,      \* [Reqs -> "undefined" | "running" | "killed"]: local `chrome`
  tab,         \* [Reqs -> Nat]: id of the tab returned by CDP.New (NoTab before)
  status,      \* [Reqs -> [Calls -> "idle" | "inflight" | "ok" | "failed"]]
  waitResult,  \* [Reqs -> "none" | "ready" | "exceptionDetails"]
  pending,     \* [Reqs -> completion]: completion travelling through finally
  generated,   \* [Reqs -> completion]: how generate() completed
  outcome,     \* [Reqs -> completion]: how create() settled
  log,         \* [Reqs -> Seq(event)]: what the coroutine did and observed
  tabs,        \* set of tab ids open in the engine
  nextTabId,   \* next tab id the engine hands out
  html         \* [Reqs -> Seq(char)]: the `html` argument of create()

vars == <<pc, myOptions, timer, chrome, tab, status, waitResult, pending,
          generated, outcome, log, tabs, nextTabId, html>>

----------------------------------------------------------------------------
(* Bounds and value spaces *)

Reqs == {1, 2}
\* requests that run under Spec (one create() invocation)
Single == {1}

\* timeouts range over undefined, -1 and 0 .. MaxTimeout
MaxTimeout == 1

\* a JS value that is either undefined or a number n, written <<n>>
Undefined == <<>>
TimeoutValues ==
  {Undefined, <<0 - 1>>} \cup {<<t>> : t \in 0 .. MaxTimeout}

NoPort == 0
UserPort == 1
LaunchedPort == 2
NoTab == 0

Calls ==
  {"launch", "CDP.New", "CDP", "Network.clearBrowserCache", "Page.enable",
   "Runtime.enable", "Runtime.consoleAPICalled", "Runtime.exceptionThrown",
   "Network.setCookies", "Page.navigate", "Page.loadEventFired",
   "completionTrigger.wait", "Page.printToPDF", "client.close", "CDP.Close",
   "chrome.kill"}

\* teardown steps of create()/generate(); every other call is orchestration
TeardownCalls == {"client.close", "CDP.Close", "chrome.kill"}

EnablePair == {"Page.enable", "Runtime.enable"}
NavigatePair == {"Page.navigate", "Page.loadEventFired"}

CreateOptions ==
  [timeout : TimeoutValues, host : BOOLEAN, port : {NoPort, UserPort},
   clearCache : BOOLEAN, runtimeConsoleHandler : BOOLEAN,
   runtimeExceptionHandler : BOOLEAN, cookies : BOOLEAN,
   completionTrigger : BOOLEAN, _canceled : BOOLEAN]

DefaultOptions ==
  [timeout |-> Undefined, host |-> FALSE, port |-> NoPort,
   clearCache |-> FALSE, runtimeConsoleHandler |-> FALSE,
   runtimeExceptionHandler |-> FALSE, cookies |-> FALSE,
   completionTrigger |-> FALSE, _canceled |-> FALSE]

----------------------------------------------------------------------------
(* The url of line 71.  A string is a sequence of one-character strings. *)

\* html arguments are made of at most MaxTokens of these pieces
MaxTokens == 3
Tokens ==
  {<<"h", "t", "t", "p">>, <<"H", "t", "T", "p">>, <<"s">>, <<"S">>,
   <<"f", "i", "l", "e">>, <<"F", "I", "L", "E">>, <<"d", "a", "t", "a">>,
   <<"D", "a", "t", "a">>, <<":">>, <<"x">>, <<"<">>}

RECURSIVE Concat(_)
Concat(ts) == IF ts = <<>> THEN <<>> ELSE Head(ts) \o Concat(Tail(ts))

HtmlInputs ==
  {Concat(ts) : ts \in UNION {[1 .. n -> Tokens] : n \in 0 .. MaxTokens}}

\* the html argument of the requests whose url is not under study
DefaultHtml == <<"<", "h", "1", ">">>

UpperCase ==
  <<"A", "B", "C", "D", "E", "F", "G", "H", "I", "J", "K", "L", "M",
    "N", "O", "P", "Q", "R", "S", "T", "U", "V", "W", "X", "Y", "Z">>
LowerCase ==
  <<"a", "b", "c", "d", "e", "f", "g", "h", "i", "j", "k", "l", "m",
    "n", "o", "p", "q", "r", "s", "t", "u", "v", "w", "x", "y", "z">>

\* the `i` flag: a letter matches in either case
ToLower(c) ==
  IF \E k \in DOMAIN UpperCase : UpperCase[k] = c
    THEN LowerCase[CHOOSE k \in DOMAIN UpperCase : UpperCase[k] = c]
    ELSE c

\* the alternatives of (https?|file|data)
Schemes ==
  {<<"h", "t", "t", "p">>, <<"h", "t", "t", "p", "s">>,
   <<"f", "i", "l", "e">>, <<"d", "a", "t", "a">>}

\* TestScheme without the `i` flag
TestScheme_CaseSensitive(s) ==
  \E w \in Schemes :
    /\ Len(s) > Len(w)
    /\ \A k \in 1 .. Len(w) : s[k] = w[k]
    /\ s[Len(w) + 1] = ":"

\* /^(https?|file|data):/i.test(s)
TestScheme(s) ==
  \E w \in Schemes :
    /\ Len(s) > Len(w)
    /\ \A k \in 1 .. Len(w) : ToLower(s[k]) = w[k]
    /\ s[Len(w) + 1] = ":"

DataUriPrefix ==
  <<"d", "a", "t", "a", ":", "t", "e", "x", "t", "/", "h", "t", "m", "l", ",">>

\* line 71
Url(s) == IF TestScheme(s) THEN s ELSE DataUriPrefix \o s

----------------------------------------------------------------------------
(* Completions and errors *)

NoCompletion == [kind |-> "none", val |-> ""]
Return(v) == [kind |-> "return", val |-> v]
Throw(e) == [kind |-> "throw", val |-> e]

TimeoutError == Throw("HtmlPdf.create() timed out.")
EvaluationError == Throw("waitResult.result.value")
\* the rejection of collaborator call c, surfaced verbatim
TransportError(c) == Throw(c)
CreateResult == Return("pdf.data")

----------------------------------------------------------------------------
(* Log of what the coroutine did: the calls it issued and the guards it    *)
(* evaluated, each with the value of the flag at that moment, and how      *)
(* create() settled.                                                       *)

Event(r, ev, what, ok, arg) ==
  [ev |-> ev, what |-> what, canceled |-> myOptions[r]._canceled,
   ok |-> ok, arg |-> arg]

Issue(r, c, arg) == Event(r, "issue", c, TRUE, arg)

Idx(r) == 1 .. Len(log[r])
IsIssue(e, c) == e.ev = "issue" /\ e.what = c
NumIssued(r, c) == Cardinality({i \in Idx(r) : IsIssue(log[r][i], c)})

----------------------------------------------------------------------------
(* Control flow *)

\* pcs at which the coroutine is suspended until a macrotask runs
SuspendedPcs ==
  {"idle", "L40w", "L44w", "L67w", "L97w", "L100w", "L114w", "L72w",
   "L129w", "L78w", "L48w", "L52w", "done"}

GuardPcs ==
  {"L37", "L39", "L66", "L95", "L105", "L109", "L113", "L116", "L128",
   "L131", "L135", "L79"}

\* A timer callback or an I/O completion runs only when no coroutine has a
\* continuation queued: `await throwIfCanceled()` yields to microtasks only.
EventLoopIdle == \A r \in Reqs : pc[r] \in SuspendedPcs

\* ArmsTimer with the sign test dropped: any number arms the timer
ArmsTimer_AnyNumber(timeout) == timeout # Undefined

\* ArmsTimer with `>` for `>=`: a timeout of 0 arms nothing
ArmsTimer_Positive(timeout) == timeout # Undefined /\ timeout[1] > 0

ArmsTimer(timeout) == timeout # Undefined /\ timeout[1] >= 0

\* Launches with "or" for "and": a host alone does not prevent the launch
Launches_Or(o) == ~o.host \/ o.port = NoPort

Launches(o) == ~o.host /\ o.port = NoPort

\* HandlerPc without the `finally` of line 47: a throw of generate() before
\* its own try block skips CDP.Close
HandlerPc_NoCloseFinally(p) ==
  CASE p \in {"L37", "L39", "L40w"} -> "L55"
    [] p = "L44w" -> "L51"
    [] p \in {"L66", "L67w"} -> "L51"
    [] p = "L48w" -> "L51"
    [] p = "L52w" -> "L55"
    [] OTHER -> "L82"

\* HandlerPc without the `finally` of line 50 around CDP.Close: a rejection of
\* CDP.Close skips chrome.kill()
HandlerPc_NoKillFinally(p) ==
  CASE p \in {"L37", "L39", "L40w"} -> "L55"
    [] p = "L44w" -> "L51"
    [] p \in {"L66", "L67w"} -> "L48"
    [] p = "L48w" -> "L55"
    [] p = "L52w" -> "L55"
    [] OTHER -> "L82"

\* where control continues when statement at p throws
HandlerPc(p) ==
  CASE p \in {"L37", "L39", "L40w"} -> "L55"
    [] p = "L44w" -> "L51"
    [] p \in {"L66", "L67w"} -> "L48"
    [] p = "L48w" -> "L51"
    [] p = "L52w" -> "L55"
    [] OTHER -> "L82"

\* AfterEnable that forgets the cookies when no handler is supplied
AfterEnable_SkipCookies(o) ==
  IF o.runtimeConsoleHandler THEN "L105"
  ELSE IF o.runtimeExceptionHandler THEN "L109" ELSE "L116"

AfterEnable(o) ==
  IF o.runtimeConsoleHandler THEN "L105"
  ELSE IF o.runtimeExceptionHandler THEN "L109"
  ELSE IF o.cookies THEN "L113" ELSE "L116"

AfterConsoleHandler(o) ==
  IF o.runtimeExceptionHandler THEN "L109"
  ELSE IF o.cookies THEN "L113" ELSE "L116"

AfterExceptionHandler(o) == IF o.cookies THEN "L113" ELSE "L116"

AfterNavigate(o) == IF o.completionTrigger THEN "L128" ELSE "L135"

\* AfterWait without the guard of line 131: the error is thrown at once
AfterWait_Unguarded(w) == IF w = "exceptionDetails" THEN "L132" ELSE "L135"

\* AfterWait without the exceptionDetails test of line 130
AfterWait_Ignore(w) == "L135"

AfterWait(w) == IF w = "exceptionDetails" THEN "L131" ELSE "L135"

\* the statement following a guard that passed
AfterGuard(p, o) ==
  CASE p = "L37" -> IF Launches(o) THEN "L39" ELSE "L44"
    [] p = "L39" -> "L40"
    [] p = "L66" -> "L67"
    [] p = "L95" -> IF o.clearCache THEN "L97" ELSE "L100"
    [] p = "L105" -> "L106"
    [] p = "L109" -> "L110"
    [] p = "L113" -> "L114"
    [] p = "L116" -> "L72"
    [] p = "L128" -> "L129"
    [] p = "L131" -> "L132"
    [] p = "L135" -> "L78"
    [] p = "L79" -> "L80"

\* JoinReady of a join that forgets its members: it never resolves
JoinReady_Never(s, pair) == \A c \in pair : s[c] = "joined"

\* JoinReady as Promise.race would have it: one resolved member is enough
JoinReady_Any(s, pair) == \E c \in pair : s[c] = "ok"

\* Promise.all resolves once every member has resolved
JoinReady(s, pair) == \A c \in pair : s[c] = "ok"

----------------------------------------------------------------------------
\* create(htmls[r], opts[r]) is about to be invoked for every request r
StartState(opts, htmls) ==
  /\ pc = [r \in Reqs |-> "idle"]
  /\ myOptions = opts
  /\ html = htmls
  /\ timer = [r \in Reqs |-> "none"]
  /\ chrome = [r \in Reqs |-> "undefined"]
  /\ tab = [r \in Reqs |-> NoTab]
  /\ status = [r \in Reqs |-> [c \in Calls |-> "idle"]]
  /\ waitResult = [r \in Reqs |-> "none"]
  /\ pending = [r \in Reqs |-> NoCompletion]
  /\ generated = [r \in Reqs |-> NoCompletion]
  /\ outcome = [r \in Reqs |-> NoCompletion]
  /\ log = [r \in Reqs |-> <<>>]
  /\ tabs = {}
  /\ nextTabId = 1

Init ==
  \E o \in CreateOptions :
    StartState([r \in Reqs |-> IF r \in Single THEN o ELSE DefaultOptions],
               [r \in Reqs |-> DefaultHtml])

----------------------------------------------------------------------------
(* Building blocks of the actions *)

Go(r, p) == pc' = [pc EXCEPT ![r] = p]
Logs(r, evs) == log' = [log EXCEPT ![r] = @ \o evs]
SetStatus(r, c, s) == status' = [status EXCEPT ![r][c] = s]

\* the statement at pc[r] throws e
Raise(r, e) ==
  /\ pending' = [pending EXCEPT ![r] = e]
  /\ Go(r, HandlerPc(pc[r]))

\* an awaited call is issued at `from`; the coroutine suspends at `to`
IssueCall(r, from, to, c, arg) ==
  /\ pc[r] = from
  /\ Go(r, to)
  /\ SetStatus(r, c, "inflight")
  /\ Logs(r, <<Issue(r, c, arg)>>)

\* the awaited call c settles; the coroutine resumes at `to` or throws
\* SettleCall with the rejection caught and suppressed: the coroutine goes on
SettleCall_Swallow(r, at, to, c, ok) ==
  /\ pc[r] = at
  /\ status[r][c] = "inflight"
  /\ EventLoopIdle
  /\ SetStatus(r, c, IF ok THEN "ok" ELSE "failed")
  /\ UNCHANGED log
  /\ Go(r, to) /\ UNCHANGED pending

SettleCall(r, at, to, c, ok) ==
  /\ pc[r] = at
  /\ status[r][c] = "inflight"
  /\ EventLoopIdle
  /\ SetStatus(r, c, IF ok THEN "ok" ELSE "failed")
  /\ UNCHANGED log
  /\ IF ok THEN Go(r, to) /\ UNCHANGED pending
           ELSE Raise(r, TransportError(c))

----------------------------------------------------------------------------
(* create(), lines 26-55 *)

\* lines 27-37: private copy, flag reset, timer armed, first guard reached
\* Create without line 30: a flag found in the caller's options is kept
Create_NoReset(r) ==
  /\ pc[r] = "idle"
  /\ timer' = [timer EXCEPT ![r] =
                 IF ArmsTimer(myOptions[r].timeout) THEN "armed" ELSE "none"]
  /\ Go(r, "L37")
  /\ UNCHANGED <<html, myOptions, chrome, tab, status, waitResult, pending,
                 generated, outcome, log, tabs, nextTabId>>

Create(r) ==
  /\ pc[r] = "idle"
  /\ myOptions' = [myOptions EXCEPT ![r]._canceled = FALSE]
  /\ timer' = [timer EXCEPT ![r] =
                 IF ArmsTimer(myOptions[r].timeout) THEN "armed" ELSE "none"]
  /\ Go(r, "L37")
  /\ UNCHANGED <<html, chrome, tab, status, waitResult, pending, generated,
                 outcome, log, tabs, nextTabId>>

\* TimerFires as it would be had create() not copied the options (line 27):
\* the callback sets the flag on an object every request reads
TimerFires_SharedOptions(r) ==
  /\ timer[r] = "armed"
  /\ EventLoopIdle
  /\ timer' = [timer EXCEPT ![r] = "fired"]
  /\ myOptions' = [q \in Reqs |-> [myOptions[q] EXCEPT !._canceled = TRUE]]
  /\ UNCHANGED <<html, pc, chrome, tab, status, waitResult, pending, generated,
                 outcome, log, tabs, nextTabId>>

\* lines 32-34: the timer callback
TimerFires(r) ==
  /\ timer[r] = "armed"
  /\ EventLoopIdle
  /\ timer' = [timer EXCEPT ![r] = "fired"]
  /\ myOptions' = [myOptions EXCEPT ![r]._canceled = TRUE]
  /\ UNCHANGED <<html, pc, chrome, tab, status, waitResult, pending, generated,
                 outcome, log, tabs, nextTabId>>

\* ThrowIfCanceled that never throws
ThrowIfCanceled_Never(r) ==
  /\ pc[r] \in GuardPcs
  /\ Logs(r, <<Event(r, "guard", pc[r], TRUE, 0)>>)
  /\ Go(r, AfterGuard(pc[r], myOptions[r]))
  /\ UNCHANGED <<html, myOptions, timer, chrome, tab, status, waitResult, pending,
                 generated, outcome, tabs, nextTabId>>

\* ThrowIfCanceled with the test inverted
ThrowIfCanceled_Inverted(r) ==
  /\ pc[r] \in GuardPcs
  /\ Logs(r, <<Event(r, "guard", pc[r], myOptions[r]._canceled, 0)>>)
  /\ IF ~myOptions[r]._canceled
       THEN Raise(r, TimeoutError)
       ELSE Go(r, AfterGuard(pc[r], myOptions[r])) /\ UNCHANGED pending
  /\ UNCHANGED <<html, myOptions, timer, chrome, tab, status, waitResult,
                 generated, outcome, tabs, nextTabId>>

\* lines 144-148, at every `await throwIfCanceled(options)`
ThrowIfCanceled(r) ==
  /\ pc[r] \in GuardPcs
  /\ Logs(r, <<Event(r, "guard", pc[r], ~myOptions[r]._canceled, 0)>>)
  /\ IF myOptions[r]._canceled
       THEN Raise(r, TimeoutError)
       ELSE Go(r, AfterGuard(pc[r], myOptions[r])) /\ UNCHANGED pending
  /\ UNCHANGED <<html, myOptions, timer, chrome, tab, status, waitResult,
                 generated, outcome, tabs, nextTabId>>

\* lines 40, 157: launch() is issued
LaunchChrome(r) ==
  /\ IssueCall(r, "L40", "L40w", "launch", myOptions[r].port)
  /\ UNCHANGED <<html, myOptions, timer, chrome, tab, waitResult, pending,
                 generated, outcome, tabs, nextTabId>>

\* lines 157-163, 40: launch() settles; the bound port is written back
LaunchSettles(r, ok) ==
  /\ SettleCall(r, "L40w", "L44", "launch", ok)
  /\ chrome' = [chrome EXCEPT ![r] = IF ok THEN "running" ELSE @]
  /\ myOptions' = [myOptions EXCEPT ![r].port = IF ok THEN LaunchedPort ELSE @]
  /\ UNCHANGED <<html, timer, tab, waitResult, generated, outcome, tabs, nextTabId>>

\* line 44: CDP.New is issued with the connection target
CDPNew(r) ==
  /\ IssueCall(r, "L44", "L44w", "CDP.New", myOptions[r].port)
  /\ UNCHANGED <<html, myOptions, timer, chrome, tab, waitResult, pending,
                 generated, outcome, tabs, nextTabId>>

\* line 44: CDP.New settles; line 46 calls generate(), which reaches line 66
CDPNewSettles(r, ok) ==
  /\ SettleCall(r, "L44w", "L66", "CDP.New", ok)
  /\ tab' = [tab EXCEPT ![r] = IF ok THEN nextTabId ELSE @]
  /\ tabs' = IF ok THEN tabs \cup {nextTabId} ELSE tabs
  /\ nextTabId' = IF ok THEN nextTabId + 1 ELSE nextTabId
  /\ UNCHANGED <<html, myOptions, timer, chrome, waitResult, generated, outcome>>

\* lines 47-48: generate() has completed; CDP.Close is issued for the tab
CDPClose(r) ==
  /\ IssueCall(r, "L48", "L48w", "CDP.Close", tab[r])
  /\ generated' = [generated EXCEPT ![r] = pending[r]]
  /\ UNCHANGED <<html, myOptions, timer, chrome, tab, waitResult, pending,
                 outcome, tabs, nextTabId>>

\* line 48: CDP.Close settles; a rejection replaces the pending completion
CDPCloseSettles(r, ok) ==
  /\ SettleCall(r, "L48w", "L51", "CDP.Close", ok)
  /\ tabs' = IF ok THEN tabs \ {tab[r]} ELSE tabs
  /\ UNCHANGED <<html, myOptions, timer, chrome, tab, waitResult, generated,
                 outcome, nextTabId>>

\* lines 51-52: a launched process is killed
ChromeKill(r) ==
  /\ chrome[r] # "undefined"
  /\ IssueCall(r, "L51", "L52w", "chrome.kill", 0)
  /\ UNCHANGED <<html, myOptions, timer, chrome, tab, waitResult, pending,
                 generated, outcome, tabs, nextTabId>>

\* line 51: nothing was launched
NoChrome(r) ==
  /\ pc[r] = "L51"
  /\ chrome[r] = "undefined"
  /\ Go(r, "L55")
  /\ UNCHANGED <<html, myOptions, timer, chrome, tab, status, waitResult, pending,
                 generated, outcome, log, tabs, nextTabId>>

\* line 52: chrome.kill() settles; a rejection replaces the pending completion
ChromeKillSettles(r, ok) ==
  /\ SettleCall(r, "L52w", "L55", "chrome.kill", ok)
  /\ chrome' = [chrome EXCEPT ![r] = IF ok THEN "killed" ELSE @]
  /\ UNCHANGED <<html, myOptions, timer, tab, waitResult, generated, outcome,
                 tabs, nextTabId>>

\* line 55: the promise of create() settles with the pending completion
CreateSettles(r) ==
  /\ pc[r] = "L55"
  /\ Go(r, "done")
  /\ outcome' = [outcome EXCEPT ![r] = pending[r]]
  /\ Logs(r, <<Event(r, IF pending[r].kind = "return" THEN "resolve"
                        ELSE "reject", pending[r].val, TRUE, 0)>>)
  /\ UNCHANGED <<html, myOptions, timer, chrome, tab, status, waitResult, pending,
                 generated, tabs, nextTabId>>

----------------------------------------------------------------------------
(* generate(), lines 65-84 *)

\* line 67: the protocol client connects to the tab
Connect(r) ==
  /\ IssueCall(r, "L67", "L67w", "CDP", tab[r])
  /\ UNCHANGED <<html, myOptions, timer, chrome, tab, waitResult, pending,
                 generated, outcome, tabs, nextTabId>>

\* line 67 settles; line 69 calls beforeNavigate(), which reaches line 95
ConnectSettles(r, ok) ==
  /\ SettleCall(r, "L67w", "L95", "CDP", ok)
  /\ UNCHANGED <<html, myOptions, timer, chrome, tab, waitResult, generated,
                 outcome, tabs, nextTabId>>

\* line 97
ClearBrowserCache(r) ==
  /\ IssueCall(r, "L97", "L97w", "Network.clearBrowserCache", 0)
  /\ UNCHANGED <<html, myOptions, timer, chrome, tab, waitResult, pending,
                 generated, outcome, tabs, nextTabId>>

ClearBrowserCacheSettles(r, ok) ==
  /\ SettleCall(r, "L97w", "L100", "Network.clearBrowserCache", ok)
  /\ UNCHANGED <<html, myOptions, timer, chrome, tab, waitResult, generated,
                 outcome, tabs, nextTabId>>

\* two calls are issued together and joined with Promise.all
IssuePair(r, from, to, pair) ==
  /\ pc[r] = from
  /\ Go(r, to)
  /\ status' = [status EXCEPT ![r] =
                  [c \in Calls |-> IF c \in pair THEN "inflight" ELSE @[c]]]

\* One member of a Promise.all pair settles.  The join rejects with the first
\* rejection, resolves when both have resolved; a member that settles after
\* the join has rejected changes nothing.
SettlePair(r, at, to, pair, c, ok) ==
  /\ c \in pair
  /\ status[r][c] = "inflight"
  /\ EventLoopIdle
  /\ SetStatus(r, c, IF ok THEN "ok" ELSE "failed")
  /\ UNCHANGED log
  /\ IF pc[r] # at THEN UNCHANGED <<pc, pending>>
     ELSE IF ~ok THEN Raise(r, TransportError(c))
     ELSE IF JoinReady([status[r] EXCEPT ![c] = "ok"], pair)
       THEN Go(r, to) /\ UNCHANGED pending
       ELSE UNCHANGED <<pc, pending>>

\* lines 100-103: Page.enable() and Runtime.enable() are issued together
EnableEvents(r) ==
  /\ IssuePair(r, "L100", "L100w", EnablePair)
  /\ Logs(r, <<Issue(r, "Page.enable", 0), Issue(r, "Runtime.enable", 0)>>)
  /\ UNCHANGED <<html, myOptions, timer, chrome, tab, waitResult, pending,
                 generated, outcome, tabs, nextTabId>>

EnableSettles(r, c, ok) ==
  /\ SettlePair(r, "L100w", AfterEnable(myOptions[r]), EnablePair, c, ok)
  /\ UNCHANGED <<html, myOptions, timer, chrome, tab, waitResult, generated,
                 outcome, tabs, nextTabId>>

\* a subscription: called, not awaited
Subscribe(r, from, to, c) ==
  /\ pc[r] = from
  /\ Go(r, to)
  /\ SetStatus(r, c, "ok")
  /\ Logs(r, <<Issue(r, c, 0)>>)
  /\ UNCHANGED <<html, myOptions, timer, chrome, tab, waitResult, pending,
                 generated, outcome, tabs, nextTabId>>

\* line 106
ConsoleAPICalled(r) ==
  Subscribe(r, "L106", AfterConsoleHandler(myOptions[r]),
            "Runtime.consoleAPICalled")

\* line 110
ExceptionThrown(r) ==
  Subscribe(r, "L110", AfterExceptionHandler(myOptions[r]),
            "Runtime.exceptionThrown")

\* line 114
SetCookies(r) ==
  /\ IssueCall(r, "L114", "L114w", "Network.setCookies", 0)
  /\ UNCHANGED <<html, myOptions, timer, chrome, tab, waitResult, pending,
                 generated, outcome, tabs, nextTabId>>

SetCookiesSettles(r, ok) ==
  /\ SettleCall(r, "L114w", "L116", "Network.setCookies", ok)
  /\ UNCHANGED <<html, myOptions, timer, chrome, tab, waitResult, generated,
                 outcome, tabs, nextTabId>>

\* lines 72-75: Page.navigate() and Page.loadEventFired() are issued together
Navigate(r) ==
  /\ IssuePair(r, "L72", "L72w", NavigatePair)
  /\ Logs(r, <<Issue(r, "Page.navigate", Url(html[r])),
               Issue(r, "Page.loadEventFired", 0)>>)
  /\ UNCHANGED <<html, myOptions, timer, chrome, tab, waitResult, pending,
                 generated, outcome, tabs, nextTabId>>

\* line 75 joins; line 76 calls afterNavigate()
NavigateSettles(r, c, ok) ==
  /\ SettlePair(r, "L72w", AfterNavigate(myOptions[r]), NavigatePair, c, ok)
  /\ UNCHANGED <<html, myOptions, timer, chrome, tab, waitResult, generated,
                 outcome, tabs, nextTabId>>

\* line 129
TriggerWait(r) ==
  /\ IssueCall(r, "L129", "L129w", "completionTrigger.wait", 0)
  /\ UNCHANGED <<html, myOptions, timer, chrome, tab, waitResult, pending,
                 generated, outcome, tabs, nextTabId>>

\* lines 129-130: wait() resolves with a result w, or rejects
TriggerWaitSettles(r, ok, w) ==
  /\ SettleCall(r, "L129w", AfterWait(w), "completionTrigger.wait", ok)
  /\ waitResult' = [waitResult EXCEPT ![r] = IF ok THEN w ELSE @]
  /\ UNCHANGED <<html, myOptions, timer, chrome, tab, generated, outcome, tabs,
                 nextTabId>>

\* line 132
ThrowEvaluation(r) ==
  /\ pc[r] = "L132"
  /\ Raise(r, EvaluationError)
  /\ UNCHANGED <<html, myOptions, timer, chrome, tab, status, waitResult,
                 generated, outcome, log, tabs, nextTabId>>

\* line 78
PrintToPDF(r) ==
  /\ IssueCall(r, "L78", "L78w", "Page.printToPDF", 0)
  /\ UNCHANGED <<html, myOptions, timer, chrome, tab, waitResult, pending,
                 generated, outcome, tabs, nextTabId>>

PrintToPDFSettles(r, ok) ==
  /\ SettleCall(r, "L78w", "L79", "Page.printToPDF", ok)
  /\ UNCHANGED <<html, myOptions, timer, chrome, tab, waitResult, generated,
                 outcome, tabs, nextTabId>>

\* line 80
ReturnResult(r) ==
  /\ pc[r] = "L80"
  /\ pending' = [pending EXCEPT ![r] = CreateResult]
  /\ Go(r, "L82")
  /\ UNCHANGED <<html, myOptions, timer, chrome, tab, status, waitResult,
                 generated, outcome, log, tabs, nextTabId>>

\* line 82: client.close() is called and not awaited
ClientClose(r) ==
  /\ IssueCall(r, "L82", "L48", "client.close", 0)
  /\ UNCHANGED <<html, myOptions, timer, chrome, tab, waitResult, pending,
                 generated, outcome, tabs, nextTabId>>

\* the promise of client.close() settles; nothing awaits it
ClientCloseSettles(r, ok) ==
  /\ status[r]["client.close"] = "inflight"
  /\ EventLoopIdle
  /\ SetStatus(r, "client.close", IF ok THEN "ok" ELSE "failed")
  /\ UNCHANGED <<html, pc, myOptions, timer, chrome, tab, waitResult, pending,
                 generated, outcome, log, tabs, nextTabId>>

----------------------------------------------------------------------------
Step(r) ==
  \/ Create(r)
  \/ TimerFires(r)
  \/ ThrowIfCanceled(r)
  \/ LaunchChrome(r)
  \/ \E ok \in BOOLEAN : LaunchSettles(r, ok)
  \/ CDPNew(r)
  \/ \E ok \in BOOLEAN : CDPNewSettles(r, ok)
  \/ Connect(r)
  \/ \E ok \in BOOLEAN : ConnectSettles(r, ok)
  \/ ClearBrowserCache(r)
  \/ \E ok \in BOOLEAN : ClearBrowserCacheSettles(r, ok)
  \/ EnableEvents(r)
  \/ \E c \in EnablePair, ok \in BOOLEAN : EnableSettles(r, c, ok)
  \/ ConsoleAPICalled(r)
  \/ ExceptionThrown(r)
  \/ SetCookies(r)
  \/ \E ok \in BOOLEAN : SetCookiesSettles(r, ok)
  \/ Navigate(r)
  \/ \E c \in NavigatePair, ok \in BOOLEAN : NavigateSettles(r, c, ok)
  \/ TriggerWait(r)
  \/ \E ok \in BOOLEAN, w \in {"ready", "exceptionDetails"} :
       TriggerWaitSettles(r, ok, w)
  \/ ThrowEvaluation(r)
  \/ PrintToPDF(r)
  \/ \E ok \in BOOLEAN : PrintToPDFSettles(r, ok)
  \/ ReturnResult(r)
  \/ ClientClose(r)
  \/ \E ok \in BOOLEAN : ClientCloseSettles(r, ok)
  \/ CDPClose(r)
  \/ \E ok \in BOOLEAN : CDPCloseSettles(r, ok)
  \/ ChromeKill(r)
  \/ NoChrome(r)
  \/ \E ok \in BOOLEAN : ChromeKillSettles(r, ok)
  \/ CreateSettles(r)

Next == \E r \in Single : Step(r)

Spec == Init /\ [][Next]_vars

----------------------------------------------------------------------------
(* Vocabulary of the properties *)

Started(r) == pc[r] # "idle"
HasSettled(r) == pc[r] = "done"
HasSettledCall(r, c) == status[r][c] \in {"ok", "failed"}
\* the flag as create() found it when it settled
CanceledAtSettle(r) == log[r][Len(log[r])].canceled
GuardFailed(r) ==
  \E i \in Idx(r) : log[r][i].ev = "guard" /\ ~log[r][i].ok
NumClosed(r, id) ==
  Cardinality({i \in Idx(r) :
                 IsIssue(log[r][i], "CDP.Close") /\ log[r][i].arg = id})
TeardownFailed(r) ==
  status[r]["CDP.Close"] = "failed" \/ status[r]["chrome.kill"] = "failed"

----------------------------------------------------------------------------
(* C1: a create() invocation acquires at most one session with CDP.New, and *)
(* CDP.Close is issued for an acquired session at most once at any time    *)
(* and exactly once by the time create() has settled, on every exit path   *)
(* of generate(); nothing is closed when no session was acquired.          *)
SessionClosedExactlyOnce ==
  \A r \in Reqs :
    /\ NumIssued(r, "CDP.New") <= 1
    /\ NumIssued(r, "CDP.Close") <= 1
    /\ tab[r] = NoTab => NumIssued(r, "CDP.Close") = 0
    /\ (HasSettled(r) /\ tab[r] # NoTab) =>
         NumClosed(r, tab[r]) = 1 /\ HasSettledCall(r, "CDP.Close")

\* create() has rejected with Timeout after a session was acquired and closed
SessionClosedOnTimeout ==
  \E r \in Reqs :
    /\ HasSettled(r) /\ tab[r] # NoTab
    /\ outcome[r] = TimeoutError
    /\ NumClosed(r, tab[r]) = 1

(* C2: when launchChrome succeeded, chrome.kill() is issued at most once,   *)
(* only after the session's CDP.Close has settled (or CDP.New failed), and *)
(* it has been issued exactly once and has settled when create() settles.  *)
ProcessKilledExactlyOnce ==
  \A r \in Reqs :
    /\ NumIssued(r, "chrome.kill") <= 1
    /\ status[r]["chrome.kill"] # "idle" =>
         \/ HasSettledCall(r, "CDP.Close")
         \/ status[r]["CDP.New"] = "failed"
    /\ (HasSettled(r) /\ status[r]["launch"] = "ok") =>
         NumIssued(r, "chrome.kill") = 1 /\ HasSettledCall(r, "chrome.kill")

\* a launched process has been killed after CDP.Close rejected
ProcessKilledAfterCloseFailure ==
  \E r \in Reqs :
    /\ HasSettled(r) /\ status[r]["launch"] = "ok"
    /\ status[r]["CDP.Close"] = "failed"
    /\ NumIssued(r, "chrome.kill") = 1

(* C3: when generate() fails with an error E and a teardown step (CDP.Close *)
(* or chrome.kill) fails too, create() rejects with E.                     *)
TeardownFailureNeverMasks ==
  \A r \in Reqs :
    (HasSettled(r) /\ generated[r].kind = "throw" /\ TeardownFailed(r)) =>
      outcome[r] = generated[r]

(* C4: Page.printToPDF is never issued while the flag is set: the event     *)
(* before its issue is the guard of line 135, which found the flag false,  *)
(* and the flag is still false when the call is issued.                    *)
PrintOnlyWhileNotCanceled ==
  \A r \in Reqs : \A i \in Idx(r) :
    IsIssue(log[r][i], "Page.printToPDF") =>
      /\ ~log[r][i].canceled
      /\ i > 1
      /\ log[r][i - 1].ev = "guard" /\ log[r][i - 1].what = "L135"
      /\ log[r][i - 1].ok /\ ~log[r][i - 1].canceled

\* with a timeout T > 0 the timer fired while the print call was in flight
PrintInFlightWhenTimerFires ==
  \E r \in Reqs :
    /\ myOptions[r].timeout # Undefined /\ myOptions[r].timeout[1] > 0
    /\ status[r]["Page.printToPDF"] = "inflight"
    /\ myOptions[r]._canceled

(* C5: once the flag is set no further orchestration call is issued: every  *)
(* call other than the teardown calls is issued with the flag false.       *)
NoCallOnceCanceled ==
  \A r \in Reqs : \A i \in Idx(r) :
    (log[r][i].ev = "issue" /\ log[r][i].what \notin TeardownCalls) =>
      ~log[r][i].canceled

NonPositiveTimeoutNeverCancels ==
  \A r \in Reqs :
    (Started(r) /\ (myOptions[r].timeout = Undefined
                    \/ myOptions[r].timeout[1] <= 0)) =>
      ~myOptions[r]._canceled /\ outcome[r] # TimeoutError

(* C7 amended: with a timeout that is negative or absent the flag is never *)
(* set and create() never fails with Timeout.                              *)
NegativeTimeoutNeverCancels ==
  \A r \in Reqs :
    (Started(r) /\ (myOptions[r].timeout = Undefined
                    \/ myOptions[r].timeout[1] < 0)) =>
      ~myOptions[r]._canceled /\ outcome[r] # TimeoutError

\* create() has resolved under a negative timeout
ResolvedUnderNegativeTimeout ==
  \E r \in Reqs :
    /\ HasSettled(r) /\ outcome[r] = CreateResult
    /\ myOptions[r].timeout # Undefined /\ myOptions[r].timeout[1] < 0

(* C8: once create() has started, a timer exists exactly when the timeout  *)
(* is present and non-negative; without a timer the flag is false and no   *)
(* guard has failed.                                                       *)
TimerArmedIffNonNegative ==
  \A r \in Reqs :
    Started(r) =>
      /\ timer[r] # "none" <=>
           (myOptions[r].timeout # Undefined /\ myOptions[r].timeout[1] >= 0)
      /\ timer[r] = "none" => ~myOptions[r]._canceled /\ ~GuardFailed(r)

\* the timer of a request with timeout 0 has fired
ZeroTimeoutTimerFired ==
  \E r \in Reqs : myOptions[r].timeout = <<0>> /\ timer[r] = "fired"

(* C9: when wait() resolved with exceptionDetails, Page.printToPDF is never *)
(* issued and create() settles only by rejecting.                          *)
EvaluationFailureRejectsWithoutPrint ==
  \A r \in Reqs :
    waitResult[r] = "exceptionDetails" =>
      /\ NumIssued(r, "Page.printToPDF") = 0
      /\ status[r]["Page.printToPDF"] = "idle"
      /\ HasSettled(r) => outcome[r].kind = "throw"

\* create() has rejected after wait() resolved with exceptionDetails
RejectedAfterEvaluationFailure ==
  \E r \in Reqs :
    /\ HasSettled(r) /\ waitResult[r] = "exceptionDetails"
    /\ outcome[r] = EvaluationError

(* C10: completionTrigger.wait() and Page.printToPDF are issued only after  *)
(* Page.navigate and Page.loadEventFired have both resolved; when either   *)
(* of the two rejects, neither is ever issued.                             *)
TriggerOnlyAfterNavigateAndLoad ==
  \A r \in Reqs :
    (status[r]["completionTrigger.wait"] # "idle"
     \/ status[r]["Page.printToPDF"] # "idle") =>
      /\ status[r]["Page.navigate"] = "ok"
      /\ status[r]["Page.loadEventFired"] = "ok"

\* wait() has been invoked after both calls resolved
TriggerInvokedAfterJoin ==
  \E r \in Reqs :
    /\ status[r]["completionTrigger.wait"] = "inflight"
    /\ status[r]["Page.navigate"] = "ok"
    /\ status[r]["Page.loadEventFired"] = "ok"

----------------------------------------------------------------------------
\* the calls of the orchestrator the request has issued so far, in order
IssuedOrchestration(r) ==
  LET IsStep(e) == e.ev = "issue" /\ e.what \notin
                     (TeardownCalls \cup {"launch", "CDP.New", "CDP"})
      steps == SelectSeq(log[r], IsStep)
  IN [i \in 1 .. Len(steps) |-> steps[i].what]

\* the order of the orchestrator's steps for options o
StepOrder(o) ==
  (IF o.clearCache THEN <<"Network.clearBrowserCache">> ELSE <<>>)
  \o <<"Page.enable", "Runtime.enable">>
  \o (IF o.runtimeConsoleHandler THEN <<"Runtime.consoleAPICalled">> ELSE <<>>)
  \o (IF o.runtimeExceptionHandler THEN <<"Runtime.exceptionThrown">> ELSE <<>>)
  \o (IF o.cookies THEN <<"Network.setCookies">> ELSE <<>>)
  \o <<"Page.navigate", "Page.loadEventFired">>
  \o (IF o.completionTrigger THEN <<"completionTrigger.wait">> ELSE <<>>)
  \o <<"Page.printToPDF">>

IsPrefix(s, t) == Len(s) <= Len(t) /\ s = SubSeq(t, 1, Len(s))

(* C11: the steps a request has issued are always an initial part of the    *)
(* fixed order cache clear, Page/Runtime enable, console handler,          *)
(* exception handler, setCookies, navigate/load, trigger wait, print (each *)
(* optional step present iff its option is); setCookies has resolved when  *)
(* Page.navigate is issued, and a result is returned only after the whole  *)
(* order was issued.                                                       *)
StepsInFixedOrder ==
  \A r \in Reqs :
    /\ IsPrefix(IssuedOrchestration(r), StepOrder(myOptions[r]))
    /\ (myOptions[r].cookies /\ status[r]["Page.navigate"] # "idle") =>
         status[r]["Network.setCookies"] = "ok"
    /\ pending[r] = CreateResult =>
         IssuedOrchestration(r) = StepOrder(myOptions[r])

\* create() has resolved with every optional step configured
ResolvedWithEveryStep ==
  \E r \in Reqs :
    /\ outcome[r] = CreateResult
    /\ Len(IssuedOrchestration(r)) = 9

----------------------------------------------------------------------------
(* The url passed to Page.navigate: create() is run up to line 72 against a *)
(* caller-supplied target, with no optional step, for every html input.    *)

UrlOptions == [DefaultOptions EXCEPT !.host = TRUE, !.port = UserPort]

UrlInit ==
  \E h \in HtmlInputs :
    StartState([r \in Reqs |-> UrlOptions],
               [r \in Reqs |-> IF r \in Single THEN h ELSE DefaultHtml])

UrlNext ==
  \E r \in Single :
    \/ Create(r)
    \/ ThrowIfCanceled(r)
    \/ CDPNew(r)
    \/ \E ok \in BOOLEAN : CDPNewSettles(r, ok)
    \/ Connect(r)
    \/ \E ok \in BOOLEAN : ConnectSettles(r, ok)
    \/ EnableEvents(r)
    \/ \E c \in EnablePair, ok \in BOOLEAN : EnableSettles(r, c, ok)
    \/ Navigate(r)

UrlSpec == UrlInit /\ [][UrlNext]_vars

ToUpper(c) ==
  IF \E k \in DOMAIN LowerCase : LowerCase[k] = c
    THEN UpperCase[CHOOSE k \in DOMAIN LowerCase : LowerCase[k] = c]
    ELSE c

\* s starts with http:, https:, file: or data: in any mix of cases
StartsWithScheme(s) ==
  \E n \in {5, 6} :
    /\ Len(s) >= n
    /\ [k \in 1 .. n |-> ToUpper(s[k])] \in
         {<<"H", "T", "T", "P", ":">>, <<"H", "T", "T", "P", "S", ":">>,
          <<"F", "I", "L", "E", ":">>, <<"D", "A", "T", "A", ":">>}

(* C14: the url passed to Page.navigate is the content itself when the      *)
(* content starts with http:, https:, file: or data: (in any case), and    *)
(* "data:text/html," followed by the content for every other content.      *)
NavigateUrlIsContentOrDataUri ==
  \A r \in Reqs : \A i \in Idx(r) :
    IsIssue(log[r][i], "Page.navigate") =>
      log[r][i].arg = IF StartsWithScheme(html[r])
                        THEN html[r]
                        ELSE DataUriPrefix \o html[r]

\* a content with an upper-case scheme was passed to Page.navigate unchanged
UpperCaseSchemePassedThrough ==
  \E r \in Reqs : \E i \in Idx(r) :
    /\ IsIssue(log[r][i], "Page.navigate")
    /\ log[r][i].arg = html[r]
    /\ html[r] = <<"H", "t", "T", "p", "S", ":">>

----------------------------------------------------------------------------
(* Two concurrent invocations of create() against the same caller-supplied *)
(* target, with no optional step; each has a timeout or none, so the two   *)
(* may have been passed the same options.  Only the actions these options  *)
(* can enable are listed.                                                  *)

ConcurrentOptions == {[UrlOptions EXCEPT !.timeout = t] : t \in {Undefined, <<0>>}}

\* the calls between CDP.New and CDP.Close settle successfully here: what a
\* failed call does to one request is covered by the single-request
\* specification
ConcurrentOutcomes == {TRUE}

ConcurrentInit ==
  \E o \in [Reqs -> ConcurrentOptions] :
    StartState(o, [r \in Reqs |-> DefaultHtml])

ConcurrentNext ==
  \E r \in Reqs :
    \/ Create(r)
    \/ TimerFires(r)
    \/ ThrowIfCanceled(r)
    \/ CDPNew(r)
    \/ \E ok \in BOOLEAN : CDPNewSettles(r, ok)
    \/ Connect(r)
    \/ \E ok \in ConcurrentOutcomes : ConnectSettles(r, ok)
    \/ EnableEvents(r)
    \/ \E c \in EnablePair, ok \in ConcurrentOutcomes : EnableSettles(r, c, ok)
    \/ Navigate(r)
    \/ \E c \in NavigatePair, ok \in ConcurrentOutcomes : NavigateSettles(r, c, ok)
    \/ PrintToPDF(r)
    \/ \E ok \in ConcurrentOutcomes : PrintToPDFSettles(r, ok)
    \/ ReturnResult(r)
    \/ ClientClose(r)
    \/ \E ok \in ConcurrentOutcomes : ClientCloseSettles(r, ok)
    \/ CDPClose(r)
    \/ \E ok \in BOOLEAN : CDPCloseSettles(r, ok)
    \/ NoChrome(r)
    \/ CreateSettles(r)

ConcurrentSpec == ConcurrentInit /\ [][ConcurrentNext]_vars

(* C12: of two concurrent requests each has its own flag, set only by its   *)
(* own timer, and fails with Timeout only when its own timer fired; each   *)
(* opens a session of its own with its own CDP.New, and issues CDP.Close   *)
(* only for the session it opened.                                         *)
RequestsAreIsolated ==
  \A r \in Reqs :
    /\ (Started(r) /\ myOptions[r]._canceled) => timer[r] = "fired"
    /\ outcome[r] = TimeoutError => timer[r] = "fired"
    /\ tab[r] # NoTab <=> status[r]["CDP.New"] = "ok"
    /\ status[r]["CDP"] # "idle" => NumIssued(r, "CDP.New") = 1
    /\ \A q \in Reqs \ {r} : tab[r] # NoTab => tab[r] # tab[q]
    /\ \A i \in Idx(r) :
         IsIssue(log[r][i], "CDP.Close") =>
           /\ tab[r] # NoTab /\ log[r][i].arg = tab[r]
           /\ \A q \in Reqs \ {r} : log[r][i].arg # tab[q]

\* of two requests passed the same options, one timed out and the other
\* resolved, each having closed its own session
OneTimedOutOtherResolved ==
  /\ myOptions[1].timeout = myOptions[2].timeout
  /\ outcome[1] = TimeoutError /\ outcome[2] = CreateResult
  /\ tab[1] # NoTab /\ tab[2] # NoTab
  /\ NumClosed(1, tab[1]) = 1 /\ NumClosed(2, tab[2]) = 1

----------------------------------------------------------------------------
(* Every timer that was armed fires, every issued call settles, and the    *)
(* event loop runs every continuation that is ready: weak fairness of the  *)
(* steps of each request.                                                  *)

\* Requests whose target is given by the port alone: line 38 is the only
\* place that reads `host`, and both of its branches remain, one taken with
\* no port and one with the caller's port.
FairOptions == {o \in CreateOptions : ~o.host}

FairInit ==
  \E o \in FairOptions :
    StartState([r \in Reqs |-> IF r \in Single THEN o ELSE DefaultOptions],
               [r \in Reqs |-> DefaultHtml])

FairSpec == FairInit /\ [][Next]_vars /\ \A r \in Single : WF_vars(Step(r))

NoOtherError(r) ==
  /\ \A c \in Calls : status[r][c] # "failed"
  /\ waitResult[r] # "exceptionDetails"

(* C13: every create() eventually settles, whatever the timeout, when every *)
(* issued call settles; with timeout 0 and no call failing and no          *)
(* evaluation failure, it settles with the result or with Timeout.         *)
CreateEventuallySettles ==
  /\ \A r \in Single : <>HasSettled(r)
  /\ [](\A r \in Single :
          (HasSettled(r) /\ myOptions[r].timeout = <<0>> /\ NoOtherError(r))
            => outcome[r] \in {CreateResult, TimeoutError})

\* a request with timeout 0 settled with the result although its timer fired
ZeroTimeoutResolvedAfterTimerFired ==
  \E r \in Single :
    /\ HasSettled(r) /\ myOptions[r].timeout = <<0>>
    /\ timer[r] = "fired" /\ outcome[r] = CreateResult

----------------------------------------------------------------------------
InFlight(r) == {c \in Calls : status[r][c] = "inflight"}

\* the member of a rejected join that has not settled yet
Orphans(r) ==
  {c \in InFlight(r) :
     \E pair \in {EnablePair, NavigatePair} :
       c \in pair /\ \E d \in pair : status[r][d] = "failed"}

\* the calls in flight that the request is suspended on
Awaited(r) == (InFlight(r) \ {"client.close"}) \ Orphans(r)

(* C15 as stated: at most one protocol call of a request is in flight,     *)
(* except for the Page.navigate / Page.loadEventFired pair.                *)
AtMostOneCallInFlight ==
  \A r \in Single :
    Cardinality(InFlight(r)) <= 1 \/ InFlight(r) = NavigatePair

(* C15: a request is suspended on at most one protocol call, or on the     *)
(* Page.enable / Runtime.enable pair, or on the Page.navigate /            *)
(* Page.loadEventFired pair; besides these only client.close(), which is   *)
(* not awaited, and the unsettled member of a rejected pair are in flight. *)
AtMostOneAwaitedCallOrPair ==
  \A r \in Single :
    \/ Cardinality(Awaited(r)) <= 1
    \/ Awaited(r) = EnablePair
    \/ Awaited(r) = NavigatePair

\* the session release was issued while client.close() was still in flight,
\* after both enable calls had been in flight together and settled
CloseIssuedBeforeClientCloseSettled ==
  \E r \in Single :
    /\ status[r]["client.close"] = "inflight"
    /\ status[r]["CDP.Close"] = "inflight"
    /\ \A c \in EnablePair : status[r][c] = "ok"

----------------------------------------------------------------------------
OrchestrationCalls == Calls \ TeardownCalls

HasFailedCall(r) == \E c \in OrchestrationCalls : status[r][c] = "failed"

\* every resource the request acquired has had its release issued
TeardownRan(r) ==
  /\ status[r]["CDP"] = "ok" => NumIssued(r, "client.close") = 1
  /\ tab[r] # NoTab => NumClosed(r, tab[r]) = 1
  /\ chrome[r] # "undefined" => NumIssued(r, "chrome.kill") = 1

(* C16: once a protocol call of the orchestration has failed, it is not    *)
(* issued again, no orchestration call is issued afterwards (teardown      *)
(* calls are), and create() settles by rejecting, after the teardown of    *)
(* what it had acquired was issued.                                        *)
FailedCallAbortsRequest ==
  /\ [](\A r \in Single :
          /\ \A c \in OrchestrationCalls :
               status[r][c] = "failed" => NumIssued(r, c) = 1
          /\ (HasFailedCall(r) /\ HasSettled(r)) =>
               outcome[r].kind = "throw" /\ TeardownRan(r))
  /\ [][\A r \in Single :
          HasFailedCall(r) =>
            \A c \in OrchestrationCalls :
              status'[r][c] = "inflight" => status[r][c] = "inflight"]_vars

\* a launched request whose print call failed rejected with that failure after
\* closing the client and the session and killing the process
RejectedAfterPrintFailure ==
  \E r \in Single :
    /\ status[r]["Page.printToPDF"] = "failed"
    /\ HasSettled(r) /\ outcome[r] = TransportError("Page.printToPDF")
    /\ chrome[r] = "killed" /\ NumClosed(r, tab[r]) = 1
    /\ NumIssued(r, "client.close") = 1

----------------------------------------------------------------------------
GuardPassed(r, p) ==
  \E i \in Idx(r) :
    log[r][i].ev = "guard" /\ log[r][i].what = p /\ log[r][i].ok

\* what create() settles with when generate() completed with g
AfterTeardown(r, g) ==
  IF status[r]["chrome.kill"] = "failed" THEN TransportError("chrome.kill")
  ELSE IF status[r]["CDP.Close"] = "failed" THEN TransportError("CDP.Close")
  ELSE g

(* C17 as stated: when wait() reported an evaluation failure, create()     *)
(* rejects with the EvaluationError, whenever the timer fires.             *)
EvaluationFailureAlwaysReported ==
  \A r \in Single :
    (HasSettled(r) /\ waitResult[r] = "exceptionDetails") =>
      outcome[r] = EvaluationError

(* C17: when wait() reported an evaluation failure, generate() fails with  *)
(* the EvaluationError if the guard of line 131 found the flag clear and   *)
(* with the Timeout error if it found it set; create() rejects with that   *)
(* error unless a teardown step failed, whose error it then rejects with.  *)
EvaluationFailureReportedUnlessCanceled ==
  \A r \in Single :
    (HasSettled(r) /\ waitResult[r] = "exceptionDetails") =>
      /\ generated[r] = IF GuardPassed(r, "L131") THEN EvaluationError
                                                   ELSE TimeoutError
      /\ outcome[r] = AfterTeardown(r, generated[r])
      /\ GuardPassed(r, "L131") <=>
           \A i \in Idx(r) : log[r][i].what = "L131" => ~log[r][i].canceled

\* the timer fired while wait() was in flight, wait() reported an evaluation
\* failure, and create() rejected with the Timeout error
EvaluationFailureReportedAsTimeout ==
  \E r \in Single :
    /\ HasSettled(r) /\ waitResult[r] = "exceptionDetails"
    /\ ~TeardownFailed(r)
    /\ outcome[r] = TimeoutError

----------------------------------------------------------------------------
GuardFailedAt(r, p) ==
  \E i \in Idx(r) :
    log[r][i].ev = "guard" /\ log[r][i].what = p /\ ~log[r][i].ok

(* C18: create() resolves with the result only if the guard after          *)
(* Page.printToPDF (line 79) found the flag clear; when the timer fired    *)
(* while the print call was in flight and the call resolved, the artifact  *)
(* is discarded and create() rejects with the Timeout error.               *)
ResultOnlyIfNotCanceledAfterPrint ==
  \A r \in Single :
    /\ outcome[r] = CreateResult => GuardPassed(r, "L79")
    /\ (HasSettled(r) /\ status[r]["Page.printToPDF"] = "ok"
          /\ GuardFailedAt(r, "L79")) =>
         outcome[r] = TimeoutError

----------------------------------------------------------------------------
\* the caller supplied a host or a port
Remote(r) == myOptions[r].host \/ myOptions[r].port = UserPort

TargetOfNew(r) ==
  {log[r][i].arg : i \in {j \in Idx(r) : IsIssue(log[r][j], "CDP.New")}}

(* C19: a started request launches a process exactly when the caller       *)
(* supplied neither host nor port; with a supplied target neither launch   *)
(* nor chrome.kill() is ever issued; after a launch, CDP.New is issued     *)
(* with the launched process's port as its target.                         *)
LaunchIffNoTargetSupplied ==
  \A r \in Single :
    Started(r) =>
      /\ Remote(r) =>
           /\ status[r]["launch"] = "idle"
           /\ status[r]["chrome.kill"] = "idle"
           /\ chrome[r] = "undefined"
           /\ TargetOfNew(r) \subseteq {NoPort, UserPort}
      /\ (~Remote(r) /\ pc[r] \notin {"L37", "L39", "L40"}) =>
           NumIssued(r, "launch") = 1
      /\ status[r]["CDP.New"] # "idle" =>
           Remote(r) \/ status[r]["launch"] = "ok"
      /\ status[r]["launch"] = "ok" =>
           /\ myOptions[r].port = LaunchedPort
           /\ TargetOfNew(r) \subseteq {LaunchedPort}
           /\ status[r]["CDP.New"] # "idle" => TargetOfNew(r) = {LaunchedPort}

\* a launched request opened its session on the launched port and settled
\* after killing the process
SessionOpenedOnLaunchedPort ==
  \E r \in Single :
    /\ HasSettled(r) /\ chrome[r] = "killed"
    /\ TargetOfNew(r) = {LaunchedPort}
    /\ outcome[r] = CreateResult

----------------------------------------------------------------------------
(* C20: from the start of create() on, the request's flag is set exactly   *)
(* when its timer has fired: it is clear at the start whatever the caller  *)
(* passed, and every change of it is the timer callback turning it from    *)
(* false to true; no step of the orchestrator writes it afterwards.        *)
FlagSetOnlyByTimerOnce ==
  /\ [](\A r \in Single :
          Started(r) => (myOptions[r]._canceled <=> timer[r] = "fired"))
  /\ [][\A r \in Single :
          (Started(r) /\ myOptions'[r]._canceled # myOptions[r]._canceled) =>
            /\ ~myOptions[r]._canceled /\ myOptions'[r]._canceled
            /\ timer[r] = "armed" /\ timer'[r] = "fired"
            /\ pc'[r] = pc[r] /\ log'[r] = log[r]]_vars

\* the timer set the flag while a call was in flight, a guard then read it,
\* and the flag was still set when create() rejected
FlagStillSetAtRejection ==
  \E r \in Single :
    /\ HasSettled(r) /\ outcome[r] = TimeoutError
    /\ myOptions[r]._canceled /\ timer[r] = "fired"
    /\ GuardFailedAt(r, "L79")

====
